---- MODULE Spec2Model ----
(***************************************************************************)
(* A model of the retrieval-augmented question answering pipeline:         *)
(*   - chunk_text            (chunking_service.py, src/delete.md 314-404)   *)
(*   - PineconeService       (pinecone_service.py, src/delete.md 446-641)   *)
(*   - the retrieval step of the /query and /answer endpoints              *)
(* Texts are sequences of one-character strings.  Python indices are       *)
(* 0-based and slices are half open; the helpers At and Slice keep that    *)
(* convention so that the definitions read like the source.                *)
(***************************************************************************)
EXTENDS Integers, Sequences, FiniteSets, TLC

VARIABLES
    \* ---- chunk_text: arguments, locals and position
    input,        \* the text argument as passed by the caller
    text,         \* the local `text` after text.strip()
    chunk_size,   \* argument
    overlap,      \* argument
    start,        \* local of the while loop
    end,          \* local of the while loop (end of the last window)
    chunks,       \* the list being built / returned
    pc,           \* "call" | "loop" | "done"
    \* ---- the vector index and the calls made on PineconeService
    index,        \* the records held by the external index (self.index)
    ret,          \* the last call: its arguments and what it returned
    ops,          \* number of calls made so far
    \* ---- one call of LLMService.generate_answer
    ans,          \* arguments, the prompt built, the model calls made, the result
    \* ---- one request to the /query endpoint (query_documents)
    req,          \* the request, the external calls made for it, the response
    \* ---- one document upload (chunk, cap, embed, store in the index)
    up,           \* the upload: its inputs, the stage reached, what each stage produced
    \* ---- the React components of the frontend
    form,         \* DocumentUpload's state, its pending request, App's refreshTrigger
    chat,         \* QueryAnswer's state and its pending request
    auth,         \* Clerk's auth state, App's token effect, window.clerkToken
    list          \* DocumentList's state and its pending getDocuments requests

chunkVars == <<input, text, chunk_size, overlap, start, end, chunks, pc>>
indexVars == <<index, ret, ops>>
answerVars == <<ans>>
queryVars == <<req>>
uploadVars == <<up>>
frontVars == <<form, chat, auth, list>>
vars == <<chunkVars, indexVars, answerVars, queryVars, uploadVars, frontVars>>

\* the variables a part of the model leaves alone
outsideChunk == <<indexVars, answerVars, queryVars, uploadVars, frontVars>>
outsideIndex == <<chunkVars, answerVars, queryVars, uploadVars, frontVars>>
outsideAnswer == <<chunkVars, indexVars, queryVars, uploadVars, frontVars>>
outsideQuery == <<chunkVars, answerVars, uploadVars, frontVars>>
outsideUpload == <<chunkVars, answerVars, queryVars, frontVars>>
backendVars == <<chunkVars, indexVars, answerVars, queryVars, uploadVars>>

\* the value of a part's variables while that part is not exercised
Idle == [st |-> "idle"]
FrontIdle == form = Idle /\ chat = Idle /\ auth = Idle /\ list = Idle

-----------------------------------------------------------------------------
\* Bounds of the model

MaxTextLen == 5
MaxChunkSize == 3
Pad == 3
MaxChunks == 2
MaxTopK == 2
MaxOps == 2

\* Program constants
LOOKAHEAD == 100
CHUNK_SIZE_DOC == 1000
OVERLAP_DOC == 100
METADATA_TEXT_LIMIT == 1000

-----------------------------------------------------------------------------
\* Characters and Python string helpers

NL == "\n"
Filler == "a"
Whitespace == {" ", NL}
Alphabet == {Filler, " ", ".", NL}

Min(a, b) == IF a <= b THEN a ELSE b
Max(a, b) == IF a >= b THEN a ELSE b
SetMax(S) == CHOOSE x \in S : \A y \in S : y <= x

\* s[i] with a 0-based index
At(s, i) == s[i + 1]

\* s[a:b] for 0 <= a, with Python's clamping of b to len(s)
Slice(s, a, b) ==
    IF a >= Min(b, Len(s)) THEN <<>> ELSE SubSeq(s, a + 1, Min(b, Len(s)))

\* str.strip(): drop leading and trailing whitespace
Strip(s) ==
    LET kept(i) == s[i] \notin Whitespace
    IN  IF \A i \in 1..Len(s) : ~kept(i) THEN <<>>
        ELSE SubSeq(s,
                CHOOSE i \in 1..Len(s) : kept(i) /\ \A j \in 1..(i - 1) : ~kept(j),
                CHOOSE i \in 1..Len(s) : kept(i) /\ \A j \in (i + 1)..Len(s) : ~kept(j))

\* does marker m occur in s at 0-based index p
OccursAt(s, m, p) ==
    /\ p >= 0
    /\ p + Len(m) <= Len(s)
    /\ \A k \in 1..Len(m) : s[p + k] = m[k]

\* str.rfind(m, lo, hi): the highest index p with lo <= p, p + len(m) <= hi
\* at which m occurs, or -1
RFind(s, m, lo, hi) ==
    LET top == Min(hi, Len(s)) - Len(m)
        hits == {p \in lo..top : OccursAt(s, m, p)}
    IN  IF hits = {} THEN -1 ELSE SetMax(hits)

\* the four sentence markers searched by chunk_text, in source order
Markers == << <<".", " ">>, <<"!", " ">>, <<"?", " ">>, <<NL>> >>

-----------------------------------------------------------------------------
\* chunk_text

\* a mutant of CleanText: only leading whitespace is removed
CleanTextLeftOnly(s) ==
    LET keep == {i \in 1..Len(s) : s[i] \notin Whitespace}
    IN  IF keep = {} THEN <<>>
        ELSE SubSeq(s, CHOOSE i \in keep : \A j \in keep : i <= j, Len(s))

\* line 356: text = text.strip()
CleanText(s) == Strip(s)

\* a mutant of WindowEnd: a marker that starts exactly at `end` is accepted
WindowEndInclusive(t, st, cs) ==
    LET e == st + cs
    IN  IF e < Len(t)
        THEN LET search_end == Min(e + LOOKAHEAD, Len(t))
                 best_break == SetMax({RFind(t, Markers[k], e, search_end) : k \in 1..4})
             IN  IF best_break >= e THEN best_break + 1 ELSE e
        ELSE e

\* a mutant of WindowEnd: the search region is one character longer
WindowEndLongerRegion(t, st, cs) ==
    LET e == st + cs
    IN  IF e < Len(t)
        THEN LET search_end == Min(e + LOOKAHEAD + 1, Len(t))
                 best_break == SetMax({RFind(t, Markers[k], e, search_end) : k \in 1..4})
             IN  IF best_break > e THEN best_break + 1 ELSE e
        ELSE e

\* a mutant of WindowEnd: no sentence-boundary search at all
WindowEndPlain(t, st, cs) == st + cs

\* a mutant of WindowEnd: the window end forgets `start`
WindowEndNoStart(t, st, cs) ==
    LET e == cs
    IN  IF e < Len(t)
        THEN LET search_end == Min(e + LOOKAHEAD, Len(t))
                 best_break == SetMax({RFind(t, Markers[k], e, search_end) : k \in 1..4})
             IN  IF best_break > e THEN best_break + 1 ELSE e
        ELSE e

\* lines 368-386: the end of the window that starts at st
WindowEnd(t, st, cs) ==
    LET e == st + cs
    IN  IF e < Len(t)
        THEN LET search_end == Min(e + LOOKAHEAD, Len(t))
                 best_break == SetMax({RFind(t, Markers[k], e, search_end) : k \in 1..4})
             IN  IF best_break > e THEN best_break + 1 ELSE e
        ELSE e

\* lines 350-364: validation, strip, the single-chunk return, loop set-up
ChunkEntry ==
    /\ pc = "call"
    /\ IF Len(input) = 0
       THEN /\ chunks' = <<>>
            /\ pc' = "done"
            /\ UNCHANGED <<text, start, end>>
       ELSE /\ text' = CleanText(input)
            /\ IF Len(text') <= chunk_size
               THEN /\ chunks' = <<text'>>
                    /\ pc' = "done"
                    /\ UNCHANGED <<start, end>>
               ELSE /\ chunks' = <<>>
                    /\ start' = 0
                    /\ pc' = "loop"
                    /\ UNCHANGED end
    /\ UNCHANGED <<input, chunk_size, overlap>>
    /\ UNCHANGED outsideChunk

\* lines 366-400: one iteration of the while loop
ChunkIter ==
    /\ pc = "loop"
    /\ IF start < Len(text)
       THEN LET e == WindowEnd(text, start, chunk_size)
                chunk == Strip(Slice(text, start, e))
                nstart == e - overlap
            IN  /\ end' = e
                /\ chunks' = IF chunk # <<>> THEN Append(chunks, chunk) ELSE chunks
                /\ start' = nstart
                /\ pc' = IF nstart <= 0 \/ nstart >= Len(text) THEN "done" ELSE "loop"
       ELSE /\ pc' = "done"
            /\ UNCHANGED <<start, end, chunks>>
    /\ UNCHANGED <<input, text, chunk_size, overlap>>
    /\ UNCHANGED outsideChunk

ChunkNext == ChunkEntry \/ ChunkIter

-----------------------------------------------------------------------------
\* Inputs of chunk_text

RECURSIVE SeqsUpTo(_, _)
SeqsUpTo(S, n) ==
    IF n = 0 THEN {<<>>}
    ELSE LET shorter == SeqsUpTo(S, n - 1)
         IN  shorter \cup {Append(s, c) : s \in {x \in shorter : Len(x) = n - 1}, c \in S}

SmallTexts == SeqsUpTo(Alphabet, MaxTextLen)

\* long texts: filler with one marker near the start of the lookahead region
\* or near its far edge, and optionally a newline right behind the first window
LongLen == LOOKAHEAD + MaxChunkSize + Pad
Blank == [i \in 1..LongLen |-> Filler]
Put(s, m, p) == [i \in 1..Len(s) |-> IF i - p \in 1..Len(m) THEN m[i - p] ELSE s[i]]
EdgePositions == (1..(MaxChunkSize + 1)) \cup ((LOOKAHEAD - 2)..(LOOKAHEAD + MaxChunkSize))
LongTexts ==
    {Put(Blank, Markers[k], p) : k \in 1..4, p \in EdgePositions}
    \cup {Put(Put(Blank, Markers[k], p), <<NL>>, q) :
            k \in 1..4, p \in (LOOKAHEAD - 2)..(LOOKAHEAD + MaxChunkSize), q \in 1..3}

\* "A. B. C." repeated to 2500 characters
Sentence == <<"A", ".", " ", "B", ".", " ", "C", ".">>
ScenarioLen == 25 * OVERLAP_DOC
ScenarioText == [i \in 1..ScenarioLen |-> Sentence[((i - 1) % Len(Sentence)) + 1]]

ChunkInit ==
    /\ \/ /\ input \in SmallTexts \cup LongTexts
          /\ chunk_size \in 1..MaxChunkSize
          /\ overlap \in 0..(chunk_size - 1)
       \/ /\ input = ScenarioText
          /\ chunk_size = CHUNK_SIZE_DOC
          /\ overlap = OVERLAP_DOC
    /\ text = input
    /\ start = 0
    /\ end = 0
    /\ chunks = <<>>
    /\ pc = "call"
    /\ index = {}
    /\ ret = [op |-> "none"]
    /\ ops = 0
    /\ ans = Idle
    /\ req = Idle
    /\ up = Idle
    /\ FrontIdle

SpecChunk == ChunkInit /\ [][ChunkNext]_vars

-----------------------------------------------------------------------------
\* The vector index (Pinecone) as PineconeService uses it.
\* A record is [id, values, metadata]; metadata is a mapping from field
\* names to values.  Vectors are drawn from a three-point space and the
\* similarity of two vectors is 2, 1 or 0.

DocIds == {1, 2}
VecSpace == {0, 1, 2}
Scores == {0, 1, 2}

\* cosine similarity as computed by the index, on the three-point space
Similarity(q, v) == IF q = v THEN 2 ELSE IF q - v \in {-1, 1} THEN 1 ELSE 0

NoMetadata == [k \in {} |-> 0]

\* dict.update(extra): the entries of extra replace those of m
DictUpdate(m, extra) ==
    [k \in (DOMAIN m) \cup (DOMAIN extra) |-> IF k \in DOMAIN extra THEN extra[k] ELSE m[k]]

\* line 506: vector_id = f"doc_{document_id}_chunk_{i}"
VectorId(document_id, i) == <<"doc", document_id, "chunk", i>>

\* lines 509-517: the metadata of the record of chunk i (0-based)
VectorMetadata(document_id, i, chunk, metadata) ==
    LET vector_metadata ==
            [document_id |-> document_id,
             chunk_index |-> i,
             chunk_text |-> Slice(chunk, 0, METADATA_TEXT_LIMIT)]
    IN  IF DOMAIN metadata # {}
        THEN DictUpdate(vector_metadata, metadata)
        ELSE vector_metadata

\* lines 502-520: the list of vectors, one per pair of zip(chunks, embeddings)
BuildVectors(document_id, chs, embeddings, metadata) ==
    [j \in 1..Min(Len(chs), Len(embeddings)) |->
        [id |-> VectorId(document_id, j - 1),
         values |-> embeddings[j],
         metadata |-> VectorMetadata(document_id, j - 1, chs[j], metadata)]]

\* line 524, index.upsert(vectors): each vector in turn replaces the record
\* that has its id, or is added; of the vectors that share an id the last
\* one stays
IndexUpsert(idx, vectors) ==
    LET ids == {vectors[j].id : j \in DOMAIN vectors}
        last == IF Cardinality(ids) = Len(vectors) THEN DOMAIN vectors
                ELSE {j \in DOMAIN vectors :
                        \A k \in DOMAIN vectors : k > j => vectors[k].id # vectors[j].id}
    IN  {r \in idx : r.id \notin ids} \cup {vectors[j] : j \in last}

\* a mutant of upsert_embeddings: ids are numbered on from the number of
\* records already stored instead of from 0
upsert_embeddings_running_ids(idx, document_id, chs, embeddings, metadata) ==
    IndexUpsert(idx,
        [j \in 1..Min(Len(chs), Len(embeddings)) |->
            [id |-> VectorId(document_id, Cardinality(idx) + j - 1),
             values |-> embeddings[j],
             metadata |-> VectorMetadata(document_id, j - 1, chs[j], metadata)]])

\* lines 500-532: the index after a successful upsert_embeddings
upsert_embeddings(idx, document_id, chs, embeddings, metadata) ==
    IndexUpsert(idx, BuildVectors(document_id, chs, embeddings, metadata))

\* does a record pass the metadata filter (None, or {"document_id": d})
PassesFilter(r, filter_dict) ==
    \/ DOMAIN filter_dict = {}
    \/ /\ "document_id" \in DOMAIN r.metadata
       /\ r.metadata["document_id"] = filter_dict["document_id"]

Match(r, q) == [id |-> r.id, score |-> Similarity(q, r.values), metadata |-> r.metadata]

IsInjective(f) == \A a, b \in DOMAIN f : f[a] = f[b] => a = b

\* lines 569-574, index.query(vector, top_k, filter): every answer the index
\* may give: the top_k best-scoring records that pass the filter, best first;
\* which of several equally scored records come first is up to the index
IndexQuery(idx, q, top_k, filter_dict) ==
    LET cand == {Match(r, q) : r \in {x \in idx : PassesFilter(x, filter_dict)}}
        n == Min(top_k, Cardinality(cand))
    IN  {ms \in [1..n -> cand] :
            /\ IsInjective(ms)
            /\ \A a, b \in 1..n : a < b => ms[a].score >= ms[b].score
            /\ \A c \in cand : (\A a \in 1..n : ms[a] # c) =>
                                  \A a \in 1..n : ms[a].score >= c.score}

\* a mutant of query_similar: one match more than asked for is requested
query_similar_one_more(idx, query_embedding, top_k, filter_dict) ==
    IndexQuery(idx, query_embedding, top_k + 1, filter_dict)

\* a mutant of query_similar: the matches are returned in reverse
query_similar_reversed(idx, query_embedding, top_k, filter_dict) ==
    {[a \in DOMAIN ms |-> ms[Len(ms) + 1 - a]] :
        ms \in IndexQuery(idx, query_embedding, top_k, filter_dict)}

\* lines 567-586: the lists query_similar can return when the index answers
\* (the matches are copied in the order the index gave them)
query_similar(idx, query_embedding, top_k, filter_dict) ==
    IndexQuery(idx, query_embedding, top_k, filter_dict)

\* delete.md 604, index.delete(filter={"document_id": d})
IndexDelete(idx, document_id) ==
    {r \in idx : ~PassesFilter(r, [document_id |-> document_id])}

\* a mutant of delete_document_vectors: the filter is dropped and every
\* record goes
delete_document_vectors_all(idx, document_id) == {}

\* lines 602-611: the index after a successful delete_document_vectors
delete_document_vectors(idx, document_id) == IndexDelete(idx, document_id)

\* retrieval (spec 4.4): the matches at or above min_score and the statistics
ApplyMinScore(matches, min_score) == SelectSeq(matches, LAMBDA m : m.score >= min_score)
RetrievalStats(matches, top_k, min_score) ==
    [chunks_retrieved |-> Len(matches),
     chunks_after_filter |-> Len(ApplyMinScore(matches, min_score)),
     top_k |-> top_k,
     min_score |-> min_score]

-----------------------------------------------------------------------------
\* Inputs of the index calls

LongChunk == [i \in 1..(METADATA_TEXT_LIMIT + 2) |-> IF i > METADATA_TEXT_LIMIT THEN "z" ELSE "b"]
Payloads == {1, 2}
\* payload 1: short chunks; payload 2: the first chunk is longer than the
\* metadata limit; the two payloads embed to different vectors
ChunksOf(p, n) == [j \in 1..n |-> IF p = 2 /\ j = 1 THEN LongChunk ELSE <<"a", "b">>]
EmbeddingsOf(p, n) == [j \in 1..n |-> (j + p) % 3]
MetadataChoices ==
    { NoMetadata,
      [filename |-> "report.pdf", file_type |-> "pdf"],
      [filename |-> "notes.txt", chunk_index |-> 7] }
Filters == {NoMetadata} \cup {[document_id |-> d] : d \in DocIds}

-----------------------------------------------------------------------------
\* Calls on the index

\* upsert_embeddings, lines 471-540
Upsert ==
    /\ ops < MaxOps
    /\ \E d \in DocIds, n \in 1..MaxChunks, p \in Payloads, m \in MetadataChoices :
         LET call == [op |-> "upsert", document_id |-> d, chunks |-> ChunksOf(p, n),
                      embeddings |-> EmbeddingsOf(p, n), metadata |-> m]
         IN  \/ /\ index' = upsert_embeddings(index, d, call.chunks, call.embeddings, m)
                /\ ret' = call @@
                          [success |-> TRUE,
                           upserted_count |-> Min(Len(call.chunks), Len(call.embeddings))]
             \/ \* index.upsert raised: lines 534-540
                /\ index' = index
                /\ ret' = call @@ [success |-> FALSE]
    /\ ops' = ops + 1
    /\ UNCHANGED outsideIndex

\* query_similar, lines 542-590
Query ==
    /\ ops < MaxOps
    /\ \E q \in VecSpace, k \in 0..MaxTopK, f \in Filters :
         LET call == [op |-> "query", top_k |-> k, filter |-> f]
         IN  \/ /\ k >= 1
                /\ \E ms \in query_similar(index, q, k, f) :
                     ret' = call @@ [results |-> ms, failed |-> FALSE]
             \/ \* index.query raised (always for top_k < 1): lines 588-590
                /\ ret' = call @@ [results |-> <<>>, failed |-> TRUE]
    /\ ops' = ops + 1
    /\ UNCHANGED <<index, outsideIndex>>

\* retrieval with the min_score filter (spec 4.4) on top of query_similar
Retrieve ==
    /\ ops < MaxOps
    /\ \E q \in VecSpace, k \in 0..MaxTopK, min_score \in Scores :
         \E ms \in (IF k >= 1 THEN query_similar(index, q, k, NoMetadata) ELSE {}) \cup {<<>>} :
             ret' = [op |-> "retrieve", top_k |-> k, min_score |-> min_score,
                     retrieved |-> ms,
                     matches |-> ApplyMinScore(ms, min_score),
                     stats |-> RetrievalStats(ms, k, min_score)]
    /\ ops' = ops + 1
    /\ UNCHANGED <<index, outsideIndex>>

\* delete_document_vectors, lines 592-619
Delete ==
    /\ ops < MaxOps
    /\ \E d \in DocIds :
         \/ /\ index' = delete_document_vectors(index, d)
            /\ ret' = [op |-> "delete", document_id |-> d, success |-> TRUE]
         \/ /\ index' = index
            /\ ret' = [op |-> "delete", document_id |-> d, success |-> FALSE]
    /\ ops' = ops + 1
    /\ UNCHANGED outsideIndex

IndexInit ==
    /\ index = {}
    /\ ret = [op |-> "none"]
    /\ ops = 0
    /\ input = <<>>
    /\ text = <<>>
    /\ chunk_size = 1
    /\ overlap = 0
    /\ start = 0
    /\ end = 0
    /\ chunks = <<>>
    /\ pc = "done"
    /\ ans = Idle
    /\ req = Idle
    /\ up = Idle
    /\ FrontIdle

IndexNext == Upsert \/ Query \/ Retrieve \/ Delete

SpecIndex == IndexInit /\ [][IndexNext]_vars

-----------------------------------------------------------------------------
\* Claims about chunk_text

Done == pc = "done"
Trimmed == Strip(input)
LastChar(s) == s[Len(s)]

\* C2 (as claimed): empty or whitespace-only text yields no chunks at all.
C2_BlankTextYieldsNoChunks ==
    (Done /\ Trimmed = <<>>) => chunks = <<>>

\* C3 (as claimed): a text whose trimmed length is <= chunk_size yields
\* exactly one chunk, equal to the trimmed input.
C3_ShortTextOneChunk ==
    (Done /\ Len(Trimmed) <= chunk_size) => chunks = <<Trimmed>>

\* C3 (amended): a text whose trimmed length is between 1 and chunk_size
\* yields exactly one chunk, equal to the trimmed input.
C3_NonBlankShortTextOneChunk ==
    (Done /\ Len(Trimmed) >= 1 /\ Len(Trimmed) <= chunk_size) => chunks = <<Trimmed>>

\* C3 witness: a short text with surrounding whitespace came back trimmed.
C3_Witness ==
    /\ Done
    /\ Len(Trimmed) >= 2
    /\ Len(Trimmed) <= chunk_size
    /\ Len(input) > Len(Trimmed) + 1
    /\ input[Len(input)] \in Whitespace
    /\ chunks = <<Trimmed>>

\* C4: the window loop terminates: every iteration strictly increases the
\* window start, and the loop goes round again only with start < len(text),
\* so a call makes at most len(text) iterations before it returns.
C4_LoopTerminates ==
    [][pc = "loop" =>
        /\ start < Len(text)
        /\ start' > start
        /\ pc' \in {"loop", "done"}
        /\ (pc' = "loop" => start' < Len(text))]_vars

\* C4 witness: a call that went round the loop several times has returned,
\* stopped by the guard start >= len(text).
C4_Witness ==
    /\ Done
    /\ Len(chunks) >= 4
    /\ overlap > 0
    /\ start >= Len(text)

\* C5 (as claimed): each window after the first starts exactly `overlap`
\* characters before the end of the previous window (the end of what the
\* previous window took from the text), and the windows cover the trimmed
\* text from position 0 to its end with no gap.
C5_ExactOverlapAndCoverage ==
    /\ (pc = "loop" /\ end > 0) => start = Min(end, Len(text)) - overlap
    /\ (pc = "loop" /\ end > 0) => start <= Min(end, Len(text))
    /\ (Done /\ end > 0) => end >= Len(text)

\* the end the claim C6 prescribes for the window starting at `start`: p ranges
\* over the marker occurrences that begin after offset e and finish no later
\* than offset e + 100; `past` says how far behind p the new end lies
MarkerStarts(t, e) ==
    {p \in (e + 1)..Len(t) :
        \E k \in 1..4 : OccursAt(t, Markers[k], p) /\ p + Len(Markers[k]) <= e + LOOKAHEAD}
MarkerAt(t, p) == CHOOSE k \in 1..4 : OccursAt(t, Markers[k], p)
NonFinalWindow == pc = "loop" /\ start + chunk_size < Len(text)

\* C6 (as claimed): for a non-final window, if a marker occurs in the
\* lookahead region, the end moves to just past the whole marker (its last
\* character included); otherwise it stays at start + chunk_size.
C6_EndJustPastMarker ==
    [][NonFinalWindow =>
        LET e == start + chunk_size
            occ == MarkerStarts(text, e)
        IN  end' = IF occ = {} THEN e
                   ELSE SetMax(occ) + Len(Markers[MarkerAt(text, SetMax(occ))])]_vars

\* C6 (amended): for a non-final window, if a marker occurs in the lookahead
\* region (it begins after offset end and finishes no later than offset
\* end + 100), the end moves to just past the first character of the rightmost
\* occurrence (the punctuation mark or the newline; the space of a
\* two-character marker stays outside); otherwise it stays at start + chunk_size.
C6_EndJustPastPunctuation ==
    [][NonFinalWindow =>
        LET e == start + chunk_size
            occ == MarkerStarts(text, e)
        IN  end' = IF occ = {} THEN e ELSE SetMax(occ) + 1]_vars

\* C6 witness: the first window was extended to a two-character marker that
\* finishes exactly at offset end + 100, the far edge of the region.
C6_Witness ==
    /\ pc = "loop"
    /\ Len(chunks) = 1
    /\ end = chunk_size + LOOKAHEAD - 1
    /\ At(text, end - 1) = "?"
    /\ At(text, end) = " "

\* C7: "A. B. C." repeated to 2500 characters, chunk_size 1000, overlap 100:
\* exactly 3 chunks, the first two ending on a sentence mark, the last one
\* shorter than 1000 characters.
IsScenario == input = ScenarioText /\ chunk_size = CHUNK_SIZE_DOC /\ overlap = OVERLAP_DOC
C7_ScenarioThreeChunks ==
    (IsScenario /\ Done) =>
        /\ Len(chunks) = 3
        /\ LastChar(chunks[1]) = "." /\ At(text, Len(chunks[1])) = " "
        /\ LastChar(chunks[2]) = "."
        /\ Len(chunks[3]) < CHUNK_SIZE_DOC
        /\ Len(chunks[3]) > 0

\* C7 witness: the scenario call has returned its three chunks.
C7_Witness == IsScenario /\ Done /\ Len(chunks) = 3 /\ end > Len(text)

-----------------------------------------------------------------------------
\* Claims about the vector index and retrieval

UpsertDone == ret.op = "upsert" /\ ret.success
QueryDone == ret.op = "query"
RetrieveDone == ret.op = "retrieve"
NumAtOrAbove(ms, min_score) == Cardinality({a \in DOMAIN ms : ms[a].score >= min_score})

C8_UpsertIdempotent ==
    /\ UpsertDone =>
        /\ upsert_embeddings(index, ret.document_id, ret.chunks, ret.embeddings,
                             ret.metadata) = index
        /\ \A j \in 1..Len(ret.chunks) :
              Cardinality({r \in index : r.id = <<"doc", ret.document_id, "chunk", j - 1>>
                                        /\ r.values = ret.embeddings[j]}) = 1
    /\ \A r1, r2 \in index : r1.id = r2.id => r1 = r2

\* C8 witness: a second successful upsert for a document whose records were
\* already stored, leaving one record per chunk.
C8_Witness ==
    /\ UpsertDone
    /\ ops = 2
    /\ Len(ret.chunks) = 2
    /\ Cardinality(index) = 2
    /\ \A r \in index : r.id[2] = ret.document_id

\* C9 (as claimed): every record written by upsert_embeddings carries the
\* chunk's 0-based position as chunk_index, the document_id argument as
\* document_id and the caller's filename, for every chunk length and every
\* caller-supplied metadata mapping.
C9_CitationMetadataAccurate ==
    /\ \A r \in index :
          /\ r.metadata["document_id"] = r.id[2]
          /\ r.metadata["chunk_index"] = r.id[4]
    /\ UpsertDone =>
          \A j \in 1..Len(ret.chunks) : \A r \in index :
              r.id = <<"doc", ret.document_id, "chunk", j - 1>> =>
                  /\ r.metadata["chunk_index"] = j - 1
                  /\ r.metadata["document_id"] = ret.document_id
                  /\ "filename" \in DOMAIN ret.metadata =>
                        r.metadata["filename"] = ret.metadata["filename"]

Descending(ms) == \A a, b \in DOMAIN ms : a < b => ms[a].score >= ms[b].score
TiesByChunkIndex(ms) ==
    \A a, b \in DOMAIN ms :
        (a < b /\ ms[a].score = ms[b].score) =>
            ms[a].metadata["chunk_index"] <= ms[b].metadata["chunk_index"]

\* C10 (as claimed): query_similar returns at most top_k matches, ordered by
\* descending score, equal scores ordered by ascending chunk_index.
C10_DescendingWithTieBreak ==
    QueryDone =>
        /\ Len(ret.results) <= ret.top_k
        /\ Descending(ret.results)
        /\ TiesByChunkIndex(ret.results)

\* C10 (amended): query_similar returns at most top_k matches, ordered by
\* descending score (the order the index gave them); the order of matches
\* with equal score is whatever the index returned.
C10_DescendingAtMostTopK ==
    QueryDone =>
        /\ Len(ret.results) <= ret.top_k
        /\ Descending(ret.results)
        /\ ret.failed => ret.results = <<>>

\* C10 witness: a query answered with top_k >= 2 matches of different scores,
\* the better one first.
C10_Witness ==
    /\ QueryDone
    /\ ~ret.failed
    /\ Len(ret.results) = ret.top_k
    /\ ret.top_k >= 2
    /\ ret.results[1].score > ret.results[2].score

DeleteDone == ret.op = "delete" /\ ret.success

-----------------------------------------------------------------------------
\* LLMService.generate_answer and _build_prompt

MaxContext == 3          \* longest context list handed to generate_answer
MaxUse == 3              \* largest max_chunks argument

\* relevance scores are held in thousandths (950 is 0.95)
\* f"{score:.2f}": the score rounded to hundredths
Format2(score) == (score + 5) \div 10

ContextChunk(filename, document_id, chunk_index, score) ==
    [chunk_text |-> <<filename, chunk_index>>,
     score |-> score,
     source |-> [filename |-> filename, document_id |-> document_id,
                 chunk_index |-> chunk_index]]

WellFormedChunks ==
    {ContextChunk("a.pdf", 1, 0, 950), ContextChunk("a.pdf", 1, 1, 874),
     ContextChunk("b.txt", 2, 0, 874), ContextChunk("b.txt", 2, 3, 296)}

\* dictionaries that lack a key the code reads
MalformedChunks ==
    {[chunk_text |-> <<"c.md", 0>>, score |-> 300],
     [chunk_text |-> <<"c.md", 1>>, score |-> 300, source |-> [filename |-> "c.md"]]}

ChunkPool == WellFormedChunks \cup MalformedChunks
Questions == {"how does ai help", "summarise"}
ModelOutcomes == {"ok", "raises", "no_text"}

\* the key whose lookup raises KeyError while the blocks are built, lines
\* 207-211 ("none" when every lookup succeeds)
PromptKeyError(cs) ==
    LET missing(c) ==
            IF "source" \notin DOMAIN c THEN "source"
            ELSE IF "filename" \notin DOMAIN c.source THEN "filename"
            ELSE IF "chunk_text" \notin DOMAIN c THEN "chunk_text"
            ELSE IF "score" \notin DOMAIN c THEN "score"
            ELSE "none"
        bad == {i \in 1..Len(cs) : missing(cs[i]) # "none"}
    IN  IF bad = {} THEN "none"
        ELSE missing(cs[CHOOSE i \in bad : \A j \in bad : i <= j])

\* the key whose lookup raises KeyError while the sources are built, lines
\* 171-179
SourcesKeyError(cs) ==
    LET missing(c) ==
            IF "source" \notin DOMAIN c THEN "source"
            ELSE IF "filename" \notin DOMAIN c.source THEN "filename"
            ELSE IF "document_id" \notin DOMAIN c.source THEN "document_id"
            ELSE IF "chunk_index" \notin DOMAIN c.source THEN "chunk_index"
            ELSE IF "score" \notin DOMAIN c THEN "score"
            ELSE "none"
        bad == {i \in 1..Len(cs) : missing(cs[i]) # "none"}
    IN  IF bad = {} THEN "none"
        ELSE missing(cs[CHOOSE i \in bad : \A j \in bad : i <= j])

\* _build_prompt: one block per chunk, numbered from 1, then the question
\* (the fixed instruction text is the same in every prompt and is left out)
build_prompt(query, cs) ==
    [blocks |-> [i \in 1..Len(cs) |->
                    [label |-> i,
                     filename |-> cs[i].source.filename,
                     chunk_text |-> cs[i].chunk_text,
                     relevance |-> Format2(cs[i].score)]],
     question |-> query]

UsedChunksLast(context_chunks, max_chunks) ==
    Slice(context_chunks, Max(Len(context_chunks) - max_chunks, 0), Len(context_chunks))

\* line 150: context_chunks[:max_chunks]
UsedChunks(context_chunks, max_chunks) == Slice(context_chunks, 0, max_chunks)

SourcesOfReversed(cs) ==
    [i \in 1..Len(cs) |->
        LET c == cs[Len(cs) + 1 - i]
        IN  [filename |-> c.source.filename, document_id |-> c.source.document_id,
             chunk_index |-> c.source.chunk_index, relevance_score |-> c.score]]

\* lines 171-179: the sources list of the result
SourcesOf(cs) ==
    [i \in 1..Len(cs) |->
        [filename |-> cs[i].source.filename,
         document_id |-> cs[i].source.document_id,
         chunk_index |-> cs[i].source.chunk_index,
         relevance_score |-> cs[i].score]]

OnExceptionReraise(e, query) == [raised |-> e]

\* lines 182-188: the except branch
OnException(e, query) == [success |-> FALSE, error |-> e, query |-> query]

NoPrompt == [blocks |-> <<>>, question |-> "none"]

generate_answer_needs_context(query, context_chunks, max_chunks, model) ==
    LET used == UsedChunks(context_chunks, max_chunks)
    IN  IF used = <<>>
        THEN [prompt |-> NoPrompt, model_calls |-> 0,
              result |-> OnException("no context", query)]
        ELSE IF PromptKeyError(used) # "none"
        THEN [prompt |-> NoPrompt, model_calls |-> 0,
              result |-> OnException(PromptKeyError(used), query)]
        ELSE IF model # "ok"
        THEN [prompt |-> build_prompt(query, used), model_calls |-> 1,
              result |-> OnException(model, query)]
        ELSE [prompt |-> build_prompt(query, used), model_calls |-> 1,
              result |-> [success |-> TRUE, answer |-> "generated text",
                          query |-> query, chunks_used |-> Len(used),
                          sources |-> SourcesOf(used)]]

\* generate_answer, lines 148-188; model is what the language model does
\* with the one call made to it: it answers, generate_content raises, or the
\* response carries no text and response.text raises
generate_answer(query, context_chunks, max_chunks, model) ==
    LET used == UsedChunks(context_chunks, max_chunks)
    IN  IF PromptKeyError(used) # "none"
        THEN [prompt |-> NoPrompt, model_calls |-> 0,
              result |-> OnException(PromptKeyError(used), query)]
        ELSE IF model # "ok"
        THEN [prompt |-> build_prompt(query, used), model_calls |-> 1,
              result |-> OnException(model, query)]
        ELSE IF SourcesKeyError(used) # "none"
        THEN [prompt |-> build_prompt(query, used), model_calls |-> 1,
              result |-> OnException(SourcesKeyError(used), query)]
        ELSE [prompt |-> build_prompt(query, used), model_calls |-> 1,
              result |-> [success |-> TRUE, answer |-> "generated text",
                          query |-> query, chunks_used |-> Len(used),
                          sources |-> SourcesOf(used)]]

GenerateAnswer ==
    /\ ans.st = "call"
    /\ \E model \in ModelOutcomes :
         LET out == generate_answer(ans.query, ans.context_chunks, ans.max_chunks, model)
         IN  ans' = [st |-> "done", query |-> ans.query,
                     context_chunks |-> ans.context_chunks,
                     max_chunks |-> ans.max_chunks,
                     model |-> IF out.model_calls = 0 THEN "not called" ELSE model,
                     prompt |-> out.prompt,
                     model_calls |-> out.model_calls,
                     result |-> out.result]
    /\ UNCHANGED outsideAnswer

AnswerInit ==
    /\ ans \in [st : {"call"}, query : Questions,
                context_chunks : SeqsUpTo(ChunkPool, MaxContext),
                max_chunks : 0..MaxUse]
    /\ input = <<>>
    /\ text = <<>>
    /\ chunk_size = 1
    /\ overlap = 0
    /\ start = 0
    /\ end = 0
    /\ chunks = <<>>
    /\ pc = "done"
    /\ index = {}
    /\ ret = [op |-> "none"]
    /\ ops = 0
    /\ req = Idle
    /\ up = Idle
    /\ FrontIdle

AnswerNext == GenerateAnswer

SpecAnswer == AnswerInit /\ [][AnswerNext]_vars

-----------------------------------------------------------------------------
\* Claims about generate_answer

AnswerDone == ans.st = "done"
AnswerOk == AnswerDone /\ "success" \in DOMAIN ans.result /\ ans.result.success
AnswerFailed == AnswerDone /\ ~AnswerOk

\* C12: in every successful result, sources comes from exactly the chunk list
\* the prompt was built from: chunks_used is the length of sources, and the
\* block "Document i" and sources[i] describe the same chunk (same filename,
\* same relevance score, the score printed with two decimals in the block),
\* in the same order.
C12_SourcesMatchPrompt ==
    AnswerOk =>
        LET blocks == ans.prompt.blocks
            sources == ans.result.sources
        IN  /\ ans.result.chunks_used = Len(sources)
            /\ Len(blocks) = Len(sources)
            /\ \A i \in 1..Len(sources) :
                  /\ blocks[i].label = i
                  /\ blocks[i].filename = sources[i].filename
                  /\ blocks[i].relevance = Format2(sources[i].relevance_score)
                  /\ \E c \in WellFormedChunks :
                        /\ c.chunk_text = blocks[i].chunk_text
                        /\ c.source.document_id = sources[i].document_id
                        /\ c.source.chunk_index = sources[i].chunk_index
                        /\ c.score = sources[i].relevance_score

\* C12 witness: a successful answer built from two chunks of different files
\* with different scores, while a third chunk was cut by max_chunks.
C12_Witness ==
    /\ AnswerOk
    /\ Len(ans.result.sources) = 2
    /\ Len(ans.context_chunks) = 3
    /\ ans.result.sources[1].filename # ans.result.sources[2].filename
    /\ ans.result.sources[1].relevance_score # ans.result.sources[2].relevance_score

\* the chunk sources[i] was made from is context_chunks[i]
UsesPrefix ==
    \A i \in 1..Len(ans.result.sources) :
        LET c == ans.context_chunks[i]
        IN  /\ c \in WellFormedChunks
            /\ ans.result.sources[i] =
                  [filename |-> c.source.filename, document_id |-> c.source.document_id,
                   chunk_index |-> c.source.chunk_index, relevance_score |-> c.score]
            /\ ans.prompt.blocks[i].chunk_text = c.chunk_text

NoUnusedScoresHigher ==
    \A i \in 1..ans.result.chunks_used :
        \A j \in (ans.result.chunks_used + 1)..Len(ans.context_chunks) :
            ans.context_chunks[j].score <= ans.context_chunks[i].score

\* C13 as stated: generate_answer uses at most max_chunks chunks and they are
\* the highest-scoring of the chunks given: no unused chunk has a strictly
\* higher score than a used one.
C13_UsesHighestScoring ==
    AnswerOk =>
        /\ ans.result.chunks_used <= ans.max_chunks
        /\ NoUnusedScoresHigher

\* C13 amended: generate_answer uses the first min(max_chunks, len) chunks of
\* the list, in the order given; they are the highest-scoring ones when the
\* list is in descending score order, as the retrieval step returns it.
C13_UsesLeadingChunks ==
    AnswerOk =>
        /\ ans.result.chunks_used = Min(ans.max_chunks, Len(ans.context_chunks))
        /\ UsesPrefix
        /\ Descending(ans.context_chunks) => NoUnusedScoresHigher

\* C13 witness: a descending list longer than max_chunks was cut to its
\* leading chunks, leaving a strictly lower-scoring chunk unused.
C13_Witness ==
    /\ AnswerOk
    /\ ans.max_chunks = 2
    /\ Len(ans.context_chunks) = 3
    /\ Descending(ans.context_chunks)
    /\ ans.context_chunks[3].score < ans.context_chunks[2].score
    /\ ans.context_chunks[2].score < ans.context_chunks[1].score

\* C14: generate_answer never raises: when building the prompt fails or the
\* model call fails it returns a result with success = false, the error text
\* and the original query, and no answer, chunks_used or sources.
C14_FailureResult ==
    AnswerDone =>
        LET used == UsedChunks(ans.context_chunks, ans.max_chunks)
            failure == IF PromptKeyError(used) # "none" THEN PromptKeyError(used)
                       ELSE IF ans.model # "ok" THEN ans.model
                       ELSE SourcesKeyError(used)
        IN  /\ "raised" \notin DOMAIN ans.result
            /\ failure # "none" =>
                  /\ DOMAIN ans.result = {"success", "error", "query"}
                  /\ ans.result.success = FALSE
                  /\ ans.result.error = failure
                  /\ ans.result.query = ans.query

\* C14 witness: the prompt was built from two chunks and the model call then
\* raised.
C14_Witness ==
    /\ AnswerFailed
    /\ ans.model = "raises"
    /\ Len(ans.prompt.blocks) = 2

\* C14 witness for the other cause: a chunk without a source made the prompt
\* construction fail before any model call.
C14_PromptFailureReached ==
    /\ AnswerFailed
    /\ ans.model_calls = 0
    /\ ans.result.error = "source"

NoChunkSurvives == UsedChunks(ans.context_chunks, ans.max_chunks) = <<>>

\* C15 as stated: with no chunk left the model is still invoked exactly once
\* with an empty context section and the result has success = true,
\* chunks_used = 0 and an empty sources list.
C15_EmptyContextSucceeds ==
    (AnswerDone /\ NoChunkSurvives) =>
        /\ ans.model_calls = 1
        /\ ans.prompt.blocks = <<>>
        /\ AnswerOk
        /\ ans.result.chunks_used = 0
        /\ ans.result.sources = <<>>

\* C15 amended: with no chunk left the model is still invoked exactly once
\* with an empty context section and the question; when that call answers,
\* the result has success = true, chunks_used = 0 and an empty sources list;
\* when it fails the result is the failure result.
C15_EmptyContextOneCall ==
    (AnswerDone /\ NoChunkSurvives) =>
        /\ ans.model_calls = 1
        /\ ans.prompt = [blocks |-> <<>>, question |-> ans.query]
        /\ ans.model = "ok" =>
              /\ AnswerOk
              /\ ans.result.chunks_used = 0
              /\ ans.result.sources = <<>>
        /\ ans.model # "ok" => ans.result = OnException(ans.model, ans.query)

\* C15 witness: an empty context list was answered by the model.
C15_Witness ==
    /\ AnswerOk
    /\ ans.context_chunks = <<>>
    /\ ans.max_chunks > 0
    /\ ans.model_calls = 1
    /\ ans.result.chunks_used = 0

-----------------------------------------------------------------------------
\* The /query endpoint, query_documents

MAX_QUERY_LENGTH == 1000
MaxShortQuery == 2       \* longest query enumerated character by character

\* dict.get(key, default)
Get(m, key, default) == IF key \in DOMAIN m THEN m[key] ELSE default

\* lines 567-590, query_similar as its caller sees it: the matches when the
\* index answers, the empty list when index.query raises
QuerySimilarOutcomes(idx, query_embedding, top_k, filter_dict, index_ok) ==
    IF index_ok THEN query_similar(idx, query_embedding, top_k, filter_dict)
    ELSE {<<>>}

\* embedding_service.generate_embedding(text): a fixed vector per text
GenerateEmbedding(t) == Len(t) % 3

ValidateQueryNoStrip(query) ==
    IF query = <<>> THEN "Query cannot be empty"
    ELSE IF Len(query) > MAX_QUERY_LENGTH THEN "Query too long (max 1000 characters)"
    ELSE "ok"

\* lines 712-723: the detail of the 400 response, "ok" for a query that passes
ValidateQuery(query) ==
    IF query = <<>> \/ Len(Strip(query)) = 0 THEN "Query cannot be empty"
    ELSE IF Len(query) > MAX_QUERY_LENGTH THEN "Query too long (max 1000 characters)"
    ELSE "ok"

\* lines 742-753: one formatted result
FormatMatch(match) ==
    [chunk_text |-> Get(match.metadata, "chunk_text", <<>>),
     score |-> match.score,
     source |-> [document_id |-> Get(match.metadata, "document_id", "None"),
                 filename |-> Get(match.metadata, "filename", "Unknown"),
                 file_type |-> Get(match.metadata, "file_type", "unknown"),
                 chunk_index |-> Get(match.metadata, "chunk_index", 0)]]

query_documents_eager(query, top_k, embed_ok, matches) ==
    IF ValidateQuery(query) # "ok"
    THEN [calls |-> <<>>,
          response |-> [status |-> 400, detail |-> ValidateQuery(query)]]
    ELSE IF ~embed_ok
    THEN [calls |-> <<"query_similar", "generate_embedding">>,
          response |-> [status |-> 500, detail |-> "Error processing query"]]
    ELSE [calls |-> <<"query_similar", "generate_embedding">>,
          response |-> [status |-> 200, query |-> query, top_k |-> top_k,
                        results_count |-> Len(matches),
                        results |-> [i \in 1..Len(matches) |-> FormatMatch(matches[i])]]]

\* query_documents, lines 710-771: the external calls made, in order, and the
\* response; embed_ok and matches are what the embedding service and
\* query_similar do when they are called
query_documents(query, top_k, embed_ok, matches) ==
    IF ValidateQuery(query) # "ok"
    THEN [calls |-> <<>>,
          response |-> [status |-> 400, detail |-> ValidateQuery(query)]]
    ELSE IF ~embed_ok
    THEN [calls |-> <<"generate_embedding">>,
          response |-> [status |-> 500, detail |-> "Error processing query"]]
    ELSE [calls |-> <<"generate_embedding", "query_similar">>,
          response |-> [status |-> 200, query |-> query, top_k |-> top_k,
                        results_count |-> Len(matches),
                        results |-> [i \in 1..Len(matches) |-> FormatMatch(matches[i])]]]

LongQuery(n) == [i \in 1..n |-> IF i = 1 THEN " " ELSE Filler]
QueryStrings ==
    SeqsUpTo({Filler, " "}, MaxShortQuery)
        \cup {LongQuery(n) : n \in (MAX_QUERY_LENGTH - 1)..(MAX_QUERY_LENGTH + 1)}
        \cup {[i \in 1..(MAX_QUERY_LENGTH + 1) |-> " "]}

\* the index contents a request is served from
StoredIndexes ==
    {{}} \cup {upsert_embeddings({}, 1, ChunksOf(1, n), EmbeddingsOf(1, n),
                                 [filename |-> "report.pdf", file_type |-> "pdf"]) :
                  n \in 1..MaxChunks}

QueryDocuments ==
    /\ req.st = "received"
    /\ LET query_embedding == GenerateEmbedding(Strip(req.query))
           rejected == ValidateQuery(req.query) # "ok"
       IN  \E embed_ok \in BOOLEAN, index_ok \in BOOLEAN :
             \* the index rejects top_k < 1
             /\ req.top_k < 1 => ~index_ok
             /\ \E ms \in (IF rejected THEN {<<>>}
                           ELSE QuerySimilarOutcomes(index, query_embedding, req.top_k,
                                                     NoMetadata, index_ok)) :
                  LET out == query_documents(req.query, req.top_k, embed_ok, ms)
                      asked == "query_similar" \in {out.calls[i] : i \in DOMAIN out.calls}
                  IN  req' = [st |-> "done", query |-> req.query, top_k |-> req.top_k,
                              calls |-> out.calls,
                              embed_failed |-> out.calls # <<>> /\ ~embed_ok,
                              matches |-> IF asked THEN ms ELSE <<>>,
                              index_failed |-> asked /\ ~index_ok,
                              response |-> out.response]
    /\ UNCHANGED <<index, ret, ops, outsideQuery>>

QueryInit ==
    /\ req \in [st : {"received"}, query : QueryStrings, top_k : 0..MaxTopK]
    /\ index \in StoredIndexes
    /\ ret = [op |-> "none"]
    /\ ops = 0
    /\ input = <<>>
    /\ text = <<>>
    /\ chunk_size = 1
    /\ overlap = 0
    /\ start = 0
    /\ end = 0
    /\ chunks = <<>>
    /\ pc = "done"
    /\ ans = Idle
    /\ up = Idle
    /\ FrontIdle

QueryNext == QueryDocuments

SpecQuery == QueryInit /\ [][QueryNext]_vars

-----------------------------------------------------------------------------
\* Claims about query_documents

RequestDone == req.st = "done"
Rejected == RequestDone /\ req.response.status = 400

\* C16: a query that is empty, only whitespace, or longer than 1000
\* characters is rejected with a validation error before any external call
\* (no embedding call, no index query).
C16_InvalidQueryRejectedFirst ==
    RequestDone =>
        LET invalid == \/ Len(req.query) = 0
                       \/ \A i \in 1..Len(req.query) : req.query[i] \in Whitespace
                       \/ Len(req.query) > MAX_QUERY_LENGTH
        IN  /\ invalid => (Rejected /\ req.calls = <<>>)
            /\ ~invalid => (~Rejected /\ req.calls # <<>>)

\* C16 witness: a query of spaces only was rejected without any call.
C16_Witness ==
    /\ Rejected
    /\ Len(req.query) = 2
    /\ req.calls = <<>>
    /\ req.response.detail = "Query cannot be empty"

\* C16, the length limit: a query of 1001 characters is rejected and one of
\* 1000 characters is not.
C16_TooLongReached ==
    /\ Rejected
    /\ Len(req.query) = MAX_QUERY_LENGTH + 1
    /\ req.response.detail = "Query too long (max 1000 characters)"

\* C20: when the vector index query fails, the query operation reports the
\* failure as an error outcome, never as a successful response with zero
\* results.
C20_IndexFailureIsError ==
    (RequestDone /\ req.index_failed) => req.response.status # 200

-----------------------------------------------------------------------------
\* Document processing on upload: chunk, cap, embed, store

MAX_CHUNKS == 200
BATCH_SIZE == 96
EMBEDDING_DIMENSION == 1024

MaxOver == 1             \* how far past the cap the chunker's output goes
MaxUploads == 2          \* uploads in one behaviour

\* the secondary provider's vectors have another dimension than the primary's
SecondaryDimension == EMBEDDING_DIMENSION \div 2
DimensionOf(provider) ==
    IF provider = "primary" THEN EMBEDDING_DIMENSION ELSE SecondaryDimension

\* the chunker's output for a document, by its length
ProducedChunks(n) == [j \in 1..n |-> <<"chunk", j>>]
ProducedCounts == {0, 1} \cup (MAX_CHUNKS..(MAX_CHUNKS + MaxOver))

CapChunksNone(chs) == chs

\* the chunk limit: at most MAX_CHUNKS chunks are kept, the rest are dropped
CapChunks(chs) == Slice(chs, 0, MAX_CHUNKS)

NumBatches(n) == (n + BATCH_SIZE - 1) \div BATCH_SIZE

EmbedWith(provider, texts) ==
    [j \in 1..Len(texts) |->
        [provider |-> provider, dim |-> DimensionOf(provider), v |-> j % 3]]

\* embed(texts): the input goes to the primary provider in batches of
\* BATCH_SIZE; fail_at is the batch at which the primary fails (0: none).
\* A failure sends the whole input to the secondary provider; when that
\* fails as well the call fails.
Embed(texts, fail_at, secondary_ok) ==
    IF fail_at = 0 THEN [ok |-> TRUE, vectors |-> EmbedWith("primary", texts)]
    ELSE IF secondary_ok THEN [ok |-> TRUE, vectors |-> EmbedWith("secondary", texts)]
    ELSE [ok |-> FALSE, vectors |-> <<>>]

IndexAcceptsAny(embeddings) == TRUE

\* index.upsert(vectors), line 524: the index was created with 1024
\* dimensions and rejects a request holding a vector of another dimension
IndexAccepts(embeddings) ==
    \A j \in DOMAIN embeddings : embeddings[j].dim = EMBEDDING_DIMENSION

UpsertOutcomes == {"ok", "returns failure", "raises"}

StorageStepStrict(idx, document, chs, embeddings, outcome) ==
    IF embeddings = <<>> \/ chs = <<>>
    THEN [index |-> idx, log |-> <<>>, raised |-> FALSE]
    ELSE IF outcome = "ok" /\ IndexAccepts(embeddings)
    THEN [index |-> upsert_embeddings(idx, document.id, chs, embeddings,
                        [filename |-> document.original_filename,
                         file_type |-> document.file_type]),
          log |-> <<"Pinecone storage successful">>, raised |-> FALSE]
    ELSE [index |-> idx, log |-> <<>>, raised |-> TRUE]

\* lines 660-682: the storage step of the upload. outcome is what the index
\* does with the request; upsert_embeddings turns a failure of the index into
\* success = False (534-540), and the step catches whatever is raised
StorageStep(idx, document, chs, embeddings, outcome) ==
    IF embeddings = <<>> \/ chs = <<>>
    THEN [index |-> idx, log |-> <<>>, raised |-> FALSE]
    ELSE IF outcome = "raises"
    THEN [index |-> idx, log |-> <<"Error storing in Pinecone">>, raised |-> FALSE]
    ELSE IF outcome = "ok" /\ IndexAccepts(embeddings)
    THEN [index |-> upsert_embeddings(idx, document.id, chs, embeddings,
                        [filename |-> document.original_filename,
                         file_type |-> document.file_type]),
          log |-> <<"Pinecone storage successful">>, raised |-> FALSE]
    ELSE [index |-> idx, log |-> <<"Pinecone storage failed">>, raised |-> FALSE]

DocumentRow(d) == [id |-> d, original_filename |-> "report.pdf", file_type |-> "pdf"]

\* process_document: the report of one upload and the index it leaves
process_document(idx, d, produced, fail_at, secondary_ok, outcome) ==
    LET kept == CapChunks(produced)
        embedded == Embed(kept, fail_at, secondary_ok)
        stored == StorageStep(idx, DocumentRow(d), kept, embedded.vectors, outcome)
    IN  [index |-> stored.index,
         embed_inputs |-> IF kept = <<>> THEN <<>> ELSE <<Len(kept)>>,
         embed_calls |-> IF kept = <<>> THEN <<>> ELSE <<embedded>>,
         attempted |-> kept # <<>> /\ embedded.ok,
         log |-> stored.log,
         response |->
            IF kept # <<>> /\ ~embedded.ok
            THEN [status |-> "failed", error |-> "ProviderUnavailable", document_id |-> d]
            ELSE IF stored.raised
            THEN [status |-> "failed", error |-> "IndexOperationFailed", document_id |-> d]
            ELSE [status |-> "processed", document_id |-> d,
                  chunk_count |-> Len(kept),
                  truncated |-> Len(produced) > MAX_CHUNKS]]

ProcessDocument ==
    /\ up.n < MaxUploads
    /\ \E d \in DocIds, n \in ProducedCounts :
         \E fail_at \in 0..NumBatches(Min(n, MAX_CHUNKS)) :
            \* the secondary provider is asked only after the primary failed,
            \* the index only when there are vectors to store
            \E secondary_ok \in (IF fail_at = 0 THEN {TRUE} ELSE BOOLEAN) :
               \E outcome \in (IF n > 0 /\ secondary_ok THEN UpsertOutcomes ELSE {"ok"}) :
                  LET out == process_document(index, d, ProducedChunks(n), fail_at,
                                              secondary_ok, outcome)
                  IN  /\ index' = out.index
                      /\ up' = [st |-> "done", n |-> up.n + 1, document_id |-> d,
                                produced |-> n,
                                outcome |-> IF out.attempted THEN outcome ELSE "not called",
                                embed_inputs |-> out.embed_inputs,
                                embed_calls |-> out.embed_calls,
                                log |-> out.log,
                                response |-> out.response]
    /\ UNCHANGED <<ret, ops, outsideUpload>>

UploadInit ==
    /\ up = [st |-> "ready", n |-> 0]
    /\ index = {}
    /\ ret = [op |-> "none"]
    /\ ops = 0
    /\ input = <<>>
    /\ text = <<>>
    /\ chunk_size = 1
    /\ overlap = 0
    /\ start = 0
    /\ end = 0
    /\ chunks = <<>>
    /\ pc = "done"
    /\ ans = Idle
    /\ req = Idle
    /\ FrontIdle

UploadNext == ProcessDocument

SpecUpload == UploadInit /\ [][UploadNext]_vars

-----------------------------------------------------------------------------
\* Claims about document processing

UploadDone == up.st = "done"
Processed == UploadDone /\ up.response.status = "processed"
StoredOk == up.log = <<"Pinecone storage successful">>
UpsertFailed == UploadDone /\ up.outcome # "not called" /\ ~StoredOk

\* C17: a failed vector upsert during document processing, whether
\* upsert_embeddings returns success = false or raises, never fails the
\* upload: the failure is logged, processing continues and the document is
\* still reported as processed.
C17_UpsertFailureDegradesGracefully ==
    UpsertFailed =>
        /\ up.log \in {<<"Pinecone storage failed">>, <<"Error storing in Pinecone">>}
        /\ up.outcome = "raises" => up.log = <<"Error storing in Pinecone">>
        /\ Processed
        /\ up.response.chunk_count = Min(up.produced, MAX_CHUNKS)

\* C17 witness: the upsert of a full document raised and the document was
\* reported as processed.
C17_Witness ==
    /\ UpsertFailed
    /\ up.outcome = "raises"
    /\ Processed
    /\ up.response.chunk_count = MAX_CHUNKS

\* C17, the other failure: upsert_embeddings returned success = false.
C17_ReturnedFailureReached ==
    /\ UpsertFailed
    /\ up.outcome = "returns failure"
    /\ Processed

C19_ChunkCap ==
    /\ UploadDone =>
          /\ \A c \in DOMAIN up.embed_inputs :
                up.embed_inputs[c] = Min(up.produced, MAX_CHUNKS)
          /\ Processed =>
                /\ up.response.chunk_count <= MAX_CHUNKS
                /\ up.response.chunk_count = Min(up.produced, MAX_CHUNKS)
                /\ up.response.truncated = (up.produced > MAX_CHUNKS)
    /\ \A d \in DocIds :
          Cardinality({r \in index : r.metadata["document_id"] = d}) <= MAX_CHUNKS
    /\ \A r \in index : r.metadata["chunk_index"] < MAX_CHUNKS

\* C19 witness: a document of one chunk more than the cap was processed,
\* reported as truncated, and exactly the cap was stored.
C19_Witness ==
    /\ Processed
    /\ StoredOk
    /\ up.produced = MAX_CHUNKS + 1
    /\ up.response.truncated
    /\ up.response.chunk_count = MAX_CHUNKS
    /\ Cardinality({r \in index : r.metadata["document_id"] = up.document_id}) = MAX_CHUNKS

-----------------------------------------------------------------------------
\* Further claims about the index, the chunker and the query endpoint

\* C27: after any sequence of successful upsert_embeddings calls for a
\* document d, the records held for d are exactly the chunks of the most
\* recent call: a re-upload with fewer chunks leaves no record of the earlier
\* upload behind.
C27_OnlyLatestUploadHeld ==
    UpsertDone =>
        {r.id : r \in {x \in index : x.id[2] = ret.document_id}}
            = {VectorId(ret.document_id, j - 1) :
                  j \in 1..Min(Len(ret.chunks), Len(ret.embeddings))}

\* C28: chunk_text never emits a chunk whose window lies entirely inside the
\* previous chunk's window: once a window has reached the end of the text, no
\* further chunk is produced.
C28_NoChunkAfterTextEnd ==
    [][(pc = "loop" /\ Len(chunks) > 0 /\ end >= Len(text)) => chunks' = chunks]_vars

\* C25: within one query request the stages run strictly in order: the
\* embedding completes before the index is queried, the index query completes
\* before the results are formatted and returned, and when the embedding
\* fails the index is never queried for that request.
C25_StagesInOrder ==
    RequestDone =>
        /\ req.calls \in {<<>>, <<"generate_embedding">>,
                          <<"generate_embedding", "query_similar">>}
        /\ req.embed_failed =>
              /\ req.calls = <<"generate_embedding">>
              /\ req.response.status = 500
        /\ req.response.status = 200 =>
              /\ req.calls = <<"generate_embedding", "query_similar">>
              /\ req.response.results_count = Len(req.matches)
              /\ \A i \in 1..Len(req.matches) :
                    /\ req.response.results[i].score = req.matches[i].score
                    /\ req.response.results[i].source.chunk_index
                          = req.matches[i].metadata["chunk_index"]

\* C25 witness: a request went through both stages and returned two results.
C25_Witness ==
    /\ RequestDone
    /\ req.response.status = 200
    /\ req.calls = <<"generate_embedding", "query_similar">>
    /\ Len(req.matches) = 2
    /\ req.response.results_count = 2

\* C25, the failing embedding: the request ended after the embedding call.
C25_EmbeddingFailureReached ==
    /\ RequestDone
    /\ req.embed_failed
    /\ req.calls = <<"generate_embedding">>

-----------------------------------------------------------------------------
\* Frontend: DocumentUpload inside App

\* the backend parts while a frontend component is exercised
BackIdle ==
    /\ input = <<>>
    /\ text = <<>>
    /\ chunk_size = 1
    /\ overlap = 0
    /\ start = 0
    /\ end = 0
    /\ chunks = <<>>
    /\ pc = "done"
    /\ index = {}
    /\ ret = [op |-> "none"]
    /\ ops = 0
    /\ ans = Idle
    /\ req = Idle
    /\ up = Idle

MaxAttempts == 2         \* upload requests started in one behaviour

NoFile == "none"
Files == {"a.pdf", "b.txt"}
\* the two versions of the component: DocumentUpload.tsx and DocumentUpload.jsx
FormVariants == {"tsx", "jsx"}

ButtonDisabledNoFile == form.file = NoFile

\* disabled={!file || uploading}
ButtonDisabled == form.file = NoFile \/ form.uploading

handleUploadSuccessKeep(refreshTrigger) == refreshTrigger

\* App.handleUploadSuccess: setRefreshTrigger(prev => prev + 1)
handleUploadSuccess(refreshTrigger) == refreshTrigger + 1

\* handleFileChange: the user picks a file, or closes the dialog (NoFile)
SelectFile ==
    /\ form.st = "mounted"
    /\ \E f \in Files \cup {NoFile} :
         IF form.variant = "tsx"
         THEN \* the input is disabled while uploading; no file: nothing happens
              /\ ~form.uploading
              /\ form' = IF f = NoFile THEN form
                         ELSE [form EXCEPT !.file = f, !.error = "none", !.success = "none"]
         ELSE form' = [form EXCEPT !.file = f, !.error = "none", !.success = "none"]
    /\ UNCHANGED <<backendVars, chat, auth, list>>

\* a click on the Upload button; a disabled button delivers no click.
\* handleUpload up to its await: the request is started
ClickUpload ==
    /\ form.st = "mounted"
    /\ form.started < MaxAttempts
    /\ ~ButtonDisabled
    /\ form' = IF form.file = NoFile
               THEN [form EXCEPT !.error = "Please select a file"]
               ELSE [form EXCEPT !.uploading = TRUE, !.error = "none", !.success = "none",
                                 !.pending = Append(@, form.file),
                                 !.started = @ + 1]
    /\ UNCHANGED <<backendVars, chat, auth, list>>

\* uploadDocument resolves: the rest of the try block, then finally
UploadResolves ==
    /\ form.st = "mounted"
    /\ form.pending # <<>>
    /\ \E i \in DOMAIN form.pending :
         LET result == [filename |-> form.pending[i]]
         IN  form' = [form EXCEPT
                        !.pending = SubSeq(@, 1, i - 1) \o SubSeq(@, i + 1, Len(@)),
                        !.success = result.filename,
                        !.file = NoFile,
                        !.callbacks = Append(@, result),
                        !.refreshTrigger = handleUploadSuccess(@),
                        !.resolved = @ + 1,
                        !.uploading = FALSE]
    /\ UNCHANGED <<backendVars, chat, auth, list>>

\* uploadDocument rejects: catch, then finally
UploadRejects ==
    /\ form.st = "mounted"
    /\ form.pending # <<>>
    /\ \E i \in DOMAIN form.pending :
         form' = [form EXCEPT
                    !.pending = SubSeq(@, 1, i - 1) \o SubSeq(@, i + 1, Len(@)),
                    !.error = "Upload failed",
                    !.rejected = @ + 1,
                    !.uploading = FALSE]
    /\ UNCHANGED <<backendVars, chat, auth, list>>

FormInit ==
    /\ form \in [st : {"mounted"}, variant : FormVariants, file : {NoFile},
                 uploading : {FALSE}, error : {"none"}, success : {"none"},
                 pending : {<<>>}, started : {0}, resolved : {0}, rejected : {0},
                 callbacks : {<<>>}, refreshTrigger : {0}]
    /\ chat = Idle
    /\ auth = Idle
    /\ list = Idle
    /\ BackIdle

FormNext == SelectFile \/ ClickUpload \/ UploadResolves \/ UploadRejects

SpecForm == FormInit /\ [][FormNext]_vars

-----------------------------------------------------------------------------
\* Claims about DocumentUpload

\* C21: in every reachable state the Upload button is disabled exactly when
\* no file is selected or an upload is in progress; it is disabled initially,
\* and no second upload request can be started while one is in flight.
C21_ButtonDisabledWhileUploading ==
    /\ ButtonDisabled <=> (form.file = NoFile \/ form.pending # <<>>)
    /\ Len(form.pending) <= 1
    /\ form.started = 0 /\ form.file = NoFile => ButtonDisabled

\* C21 witness: a file is selected, its upload is in flight and the button
\* is disabled.
C21_Witness ==
    /\ form.st = "mounted"
    /\ form.file # NoFile
    /\ Len(form.pending) = 1
    /\ ButtonDisabled

\* C23: onUploadSuccess is called exactly once with the result for every
\* upload that resolves and never for one that rejects; each call increments
\* refreshTrigger by one; uploading is false once the attempt has finished.
C23_OneCallbackPerResolvedUpload ==
    /\ form.started = form.resolved + form.rejected + Len(form.pending)
    /\ Len(form.callbacks) = form.resolved
    /\ form.refreshTrigger = Len(form.callbacks)
    /\ form.pending = <<>> => ~form.uploading
    /\ form.success # "none" =>
          form.callbacks[Len(form.callbacks)].filename = form.success

\* C23 witness: one upload resolved and one rejected; one callback was made.
C23_Witness ==
    /\ form.st = "mounted"
    /\ form.resolved = 1
    /\ form.rejected = 1
    /\ Len(form.callbacks) = 1
    /\ form.refreshTrigger = 1
    /\ ~form.uploading

-----------------------------------------------------------------------------
\* Frontend: QueryAnswer (QueryAnswer.tsx)
\*
\* chat.query is the textarea's content, chat.history the chatHistory state,
\* chat.pending the answerQuestion requests in flight, chat.last the last user
\* or network event.

MaxQuestions == 2        \* questions submitted in one behaviour

NoError == "none"
PleaseEnter == "Please enter a question"
FailedToGetAnswer == "Failed to get answer"
\* what the user can type: nothing, blanks only, a word, a word after a blank
Queries == {<<>>, <<" ">>, <<Filler>>, <<" ", Filler>>}

\* disabled={loading} on the submit button
AskDisabledLoadingOnly == chat.loading

\* disabled={loading || !query.trim()} on the submit button
AskDisabled == chat.loading \/ Strip(chat.query) = <<>>

\* handleSubmit up to the await: the state it leaves behind
handleSubmit(c) ==
    IF Strip(c.query) = <<>>
    THEN [c EXCEPT !.error = PleaseEnter]
    ELSE [c EXCEPT
            !.history = Append(@, [type |-> "question", id |-> c.sent + 1,
                                   content |-> c.query]),
            !.loading = TRUE,
            !.error = NoError,
            !.result = 0,
            !.pending = Append(@, [id |-> c.sent + 1, query |-> Strip(c.query)]),
            !.sent = @ + 1]

\* onChange of the textarea, which is disabled while loading
TypeQuery ==
    /\ chat.st = "mounted"
    /\ ~chat.loading
    /\ \E q \in Queries : chat' = [chat EXCEPT !.query = q, !.last = "type"]
    /\ UNCHANGED <<backendVars, form, auth, list>>

\* a click on "Ask Question": a disabled button delivers no submit event
ClickAsk ==
    /\ chat.st = "mounted"
    /\ chat.sent < MaxQuestions
    /\ chat' = IF AskDisabled
               THEN [chat EXCEPT !.last = "click"]
               ELSE [handleSubmit(chat) EXCEPT !.last = "click"]
    /\ UNCHANGED <<backendVars, form, auth, list>>

\* answerQuestion resolves: the rest of the try block, then finally
AnswerArrives ==
    /\ chat.st = "mounted"
    /\ \E i \in 1..Len(chat.pending) :
         chat' = [chat EXCEPT
                    !.history = Append(@, [type |-> "answer", id |-> chat.pending[i].id,
                                           content |-> chat.pending[i].query]),
                    !.result = chat.pending[i].id,
                    !.loading = FALSE,
                    !.pending = SubSeq(@, 1, i - 1) \o SubSeq(@, i + 1, Len(@)),
                    !.last = "answer"]
    /\ UNCHANGED <<backendVars, form, auth, list>>

\* answerQuestion rejects: the catch block, then finally
AnswerFails ==
    /\ chat.st = "mounted"
    /\ \E i \in 1..Len(chat.pending) :
         chat' = [chat EXCEPT
                    !.error = FailedToGetAnswer,
                    !.loading = FALSE,
                    !.pending = SubSeq(@, 1, i - 1) \o SubSeq(@, i + 1, Len(@)),
                    !.last = "failure"]
    /\ UNCHANGED <<backendVars, form, auth, list>>

\* "Clear History", rendered while the history is not empty and never disabled
ClearHistory ==
    /\ chat.st = "mounted"
    /\ chat.history # <<>>
    /\ chat' = [chat EXCEPT !.history = <<>>, !.last = "clear"]
    /\ UNCHANGED <<backendVars, form, auth, list>>

ChatInit ==
    /\ chat = [st |-> "mounted", query |-> <<>>, loading |-> FALSE, result |-> 0,
               error |-> NoError, history |-> <<>>, pending |-> <<>>, sent |-> 0,
               last |-> "mount"]
    /\ form = Idle
    /\ auth = Idle
    /\ list = Idle
    /\ BackIdle

ChatNext == TypeQuery \/ ClickAsk \/ AnswerArrives \/ AnswerFails \/ ClearHistory

SpecChat == ChatInit /\ [][ChatNext]_vars

-----------------------------------------------------------------------------
\* Claims about QueryAnswer

C26_AnswerFollowsItsQuestion ==
    \A i \in 1..Len(chat.history) :
        chat.history[i].type = "answer" =>
            /\ i > 1
            /\ chat.history[i - 1].type = "question"
            /\ chat.history[i - 1].id = chat.history[i].id

-----------------------------------------------------------------------------
\* Frontend: DocumentList (DocumentList.tsx, DocumentList.jsx)
\*
\* list.pending holds the getDocuments requests in flight.  The server's list
\* after n uploads is written n.  A request started when refreshTrigger was n
\* is served at some moment between its start and its arrival, so it returns
\* a list between n and the current one; list.outcome[k] is what became of
\* the k-th request started.

MaxRefreshes == 3        \* changes of refreshTrigger in one behaviour

FailedToLoad == "Failed to load documents"

\* fetchDocuments up to the await, run by the effect on [refreshTrigger]
fetchDocuments(l, trigger) ==
    [l EXCEPT !.refreshTrigger = trigger,
              !.loading = TRUE,
              !.error = NoError,
              !.pending = Append(@, [id |-> Len(l.outcome) + 1, since |-> trigger]),
              !.outcome = Append(@, "pending")]

\* App passes a new refreshTrigger after an upload: the effect runs again
RefreshTriggerChanges ==
    /\ list.st = "mounted"
    /\ list.refreshTrigger < MaxRefreshes
    /\ list' = fetchDocuments(list, list.refreshTrigger + 1)
    /\ UNCHANGED <<backendVars, form, chat, auth>>

\* getDocuments resolves: setDocuments(docs), then finally
DocumentsArrive ==
    /\ list.st = "mounted"
    /\ \E i \in 1..Len(list.pending) :
       \E docs \in list.pending[i].since..list.refreshTrigger :
         list' = [list EXCEPT
                    !.documents = docs,
                    !.loading = FALSE,
                    !.outcome[list.pending[i].id] = "ok",
                    !.pending = SubSeq(@, 1, i - 1) \o SubSeq(@, i + 1, Len(@))]
    /\ UNCHANGED <<backendVars, form, chat, auth>>

\* getDocuments rejects: setError, then finally
DocumentsFail ==
    /\ list.st = "mounted"
    /\ \E i \in 1..Len(list.pending) :
         list' = [list EXCEPT
                    !.error = FailedToLoad,
                    !.loading = FALSE,
                    !.outcome[list.pending[i].id] = "failed",
                    !.pending = SubSeq(@, 1, i - 1) \o SubSeq(@, i + 1, Len(@))]
    /\ UNCHANGED <<backendVars, form, chat, auth>>

\* the component after its first render: the effect has started one request
ListInit ==
    /\ list = fetchDocuments([st |-> "mounted", refreshTrigger |-> 0, documents |-> 0,
                              loading |-> TRUE, error |-> NoError,
                              pending |-> <<>>, outcome |-> <<>>], 0)
    /\ form = Idle
    /\ chat = Idle
    /\ auth = Idle
    /\ BackIdle

ListNext == RefreshTriggerChanges \/ DocumentsArrive \/ DocumentsFail

SpecList == ListInit /\ [][ListNext]_vars

-----------------------------------------------------------------------------
\* Claims about DocumentList

\* C29: once every getDocuments request has settled and the most recently
\* started one has resolved, the list shown is the result of that request,
\* whatever the order in which the responses arrived.
C29_LatestRequestWins ==
    (list.pending = <<>> /\ list.outcome[Len(list.outcome)] = "ok") =>
        list.documents = list.refreshTrigger

-----------------------------------------------------------------------------
\* Frontend: App, its token effect and the api module's getAuthToken
\*
\* auth.variant is the version of App: "plain" renders the sections inside
\* <SignedIn> and manages no token, "token" is the App with the tokenReady
\* state, "manager" the App with the TokenManager component.  auth.api is the
\* version of getAuthToken: "sync" reads window.clerkToken, "async" asks
\* window.Clerk.session first.  Sessions are numbered from 1 and a token is
\* written as the number of the session it was issued for; 0 is null.
\* auth.inflight holds the getToken calls awaited, auth.cleared says that the
\* token effect has run since the auth state became loaded and signed out.

MaxSessions == 2         \* sign-ins in one behaviour
MaxInflight == 2         \* getToken calls awaited at one time

NoToken == 0
AppVariants == {"plain", "token", "manager"}
ApiVariants == {"sync", "async"}
NoRequest == [sent |-> FALSE]

\* <SignedIn> around the sections, without the tokenReady test
SectionsRenderedSignedIn == auth.isLoaded /\ auth.isSignedIn

\* <SignedIn>{!tokenReady ? spinner : sections}</SignedIn> in the
\* token-managing App, <SignedIn>sections</SignedIn> in the others
SectionsRendered ==
    /\ auth.isLoaded
    /\ auth.isSignedIn
    /\ auth.variant = "token" => auth.tokenReady

\* <SignedOut> around the "Sign in to access your documents" landing page
PromptShown ==
    /\ auth.variant \in {"plain", "token"}
    /\ auth.isLoaded
    /\ ~auth.isSignedIn

\* fetch with the headers built from the token getAuthToken returned
Fetch(a, token) ==
    [a EXCEPT !.request = [sent |-> TRUE, signedIn |-> a.isSignedIn,
                           authorization |-> token]]

\* Clerk finishes loading, with or without a session
ClerkLoads ==
    /\ auth.st = "mounted"
    /\ ~auth.isLoaded
    /\ \E signedIn \in BOOLEAN :
         auth' = [auth EXCEPT !.isLoaded = TRUE,
                              !.isSignedIn = signedIn,
                              !.session = IF signedIn THEN 1 ELSE 0,
                              !.effectDue = TRUE]
    /\ UNCHANGED <<backendVars, form, chat, list>>

SignIn ==
    /\ auth.st = "mounted"
    /\ auth.isLoaded
    /\ ~auth.isSignedIn
    /\ auth.session < MaxSessions
    /\ auth' = [auth EXCEPT !.isSignedIn = TRUE,
                            !.session = @ + 1,
                            !.effectDue = TRUE,
                            !.cleared = FALSE]
    /\ UNCHANGED <<backendVars, form, chat, list>>

SignOut ==
    /\ auth.st = "mounted"
    /\ auth.isLoaded
    /\ auth.isSignedIn
    /\ auth' = [auth EXCEPT !.isSignedIn = FALSE, !.effectDue = TRUE]
    /\ UNCHANGED <<backendVars, form, chat, list>>

\* setToken / updateToken up to the await, run by the effect when its
\* dependencies changed and by its interval timer
RunTokenEffect ==
    /\ auth.st = "mounted"
    /\ auth.variant # "plain"
    /\ auth' =
         IF auth.isLoaded /\ auth.isSignedIn
         THEN IF Len(auth.inflight) < MaxInflight
              THEN [auth EXCEPT !.inflight = Append(@, [kind |-> "effect",
                                                        session |-> auth.session]),
                                !.effectDue = FALSE]
              ELSE auth
         ELSE IF auth.variant = "token"
              THEN [auth EXCEPT !.clerkToken = NoToken,
                                !.tokenReady = FALSE,
                                !.effectDue = FALSE,
                                !.cleared = auth.isLoaded]
              ELSE IF auth.isLoaded
                   THEN [auth EXCEPT !.clerkToken = NoToken,
                                     !.effectDue = FALSE,
                                     !.cleared = TRUE]
                   ELSE [auth EXCEPT !.effectDue = FALSE]
    /\ UNCHANGED <<backendVars, form, chat, list>>

\* a mounted section calls uploadDocument / getDocuments / answerQuestion
ApiCall ==
    /\ auth.st = "mounted"
    /\ SectionsRendered
    /\ auth' =
         IF auth.api = "sync"
         THEN Fetch(auth, auth.clerkToken)
         ELSE IF Len(auth.inflight) < MaxInflight
              THEN [auth EXCEPT !.inflight = Append(@, [kind |-> "api",
                                                        session |-> auth.session])]
              ELSE auth
    /\ UNCHANGED <<backendVars, form, chat, list>>

\* an awaited getToken resolves, with the token of the session it was called
\* in or with null
GetTokenResolves ==
    /\ auth.st = "mounted"
    /\ \E i \in 1..Len(auth.inflight) :
       \E token \in {NoToken, auth.inflight[i].session} :
         LET rest == [auth EXCEPT !.inflight = SubSeq(@, 1, i - 1)
                                               \o SubSeq(@, i + 1, Len(@))]
         IN  auth' =
               IF auth.inflight[i].kind = "effect"
               THEN IF auth.variant = "token"
                    THEN [rest EXCEPT !.clerkToken = token, !.tokenReady = TRUE]
                    ELSE IF token # NoToken
                         THEN [rest EXCEPT !.clerkToken = token]
                         ELSE rest
               ELSE IF token # NoToken
                    THEN Fetch([rest EXCEPT !.clerkToken = token], token)
                    ELSE Fetch(rest, rest.clerkToken)
    /\ UNCHANGED <<backendVars, form, chat, list>>

\* an awaited getToken rejects
GetTokenRejects ==
    /\ auth.st = "mounted"
    /\ \E i \in 1..Len(auth.inflight) :
         LET rest == [auth EXCEPT !.inflight = SubSeq(@, 1, i - 1)
                                               \o SubSeq(@, i + 1, Len(@))]
         IN  auth' =
               IF auth.inflight[i].kind = "effect"
               THEN IF auth.variant = "token"
                    THEN [rest EXCEPT !.tokenReady = FALSE]
                    ELSE rest
               ELSE Fetch(rest, rest.clerkToken)
    /\ UNCHANGED <<backendVars, form, chat, list>>

AuthInit ==
    /\ auth \in [st : {"mounted"}, variant : AppVariants, api : ApiVariants,
                 isLoaded : {FALSE}, isSignedIn : {FALSE}, session : {0},
                 clerkToken : {NoToken}, tokenReady : {FALSE},
                 effectDue : {TRUE}, cleared : {FALSE}, inflight : {<<>>},
                 request : {NoRequest}]
    /\ form = Idle
    /\ chat = Idle
    /\ list = Idle
    /\ BackIdle

AuthNext ==
    \/ ClerkLoads
    \/ SignIn
    \/ SignOut
    \/ RunTokenEffect
    \/ ApiCall
    \/ GetTokenResolves
    \/ GetTokenRejects

SpecAuth == AuthInit /\ [][AuthNext]_vars

-----------------------------------------------------------------------------
\* Claims about App and the token

C30_NoTokenWhileSignedOut ==
    /\ (auth.isLoaded /\ ~auth.isSignedIn /\ auth.cleared)
           => auth.clerkToken = NoToken
    /\ (auth.request.sent /\ ~auth.request.signedIn)
           => auth.request.authorization = NoToken

====
